---- MODULE Spec2Model ----
(***************************************************************************)
(* Model of the VALORANT battlepass tracker: config.ts (credential         *)
(* resolution and the config.yaml cache) and the current main.ts (contract *)
(* fetch with one retry, XP arithmetic, report, season fetch, error sink). *)
(* One run of main is a walk of pc from "start" to "exited" or "spin";     *)
(* config.yaml and error.log are files and survive from one run to the     *)
(* next.                                                                   *)
(***************************************************************************)
EXTENDS Integers, Sequences, FiniteSets, TLC

\* ---------------------------------------------------------------- bounds
\* number of distinct values a credential lookup may return
NumVals == 1
\* number of consecutive runs of the program that are explored
MaxRuns == 2

\* ------------------------------------------------------- program constants
CLIENT_PLATFORM ==
    "ew0KCSJwbGF0Zm9ybVR5cGUiOiAiUEMiLA0KCSJwbGF0Zm9ybU9TIjogIldpbmRvd3MiLA0KCSJwbGF0Zm9ybU9TVmVyc2lvbiI6ICIxMC4wLjE5MDQyLjEuMjU2LjY0Yml0IiwNCgkicGxhdGZvcm1DaGlwc2V0IjogIlVua25vd24iDQp9"
BATTLEPASS_TIER_COUNT == 50
BATTLEPASS_EPILOGUE_TIER_COUNT == 5
xpRequriedPerEpilogueTier == 36500

\* ------------------------------------------------------------ credentials
\* the six fields in the order getConfig resolves them
FieldOrder ==
    <<"clientVersion", "shard", "ssid", "accessToken", "puuid", "entitlementsToken">>

CredFields == {FieldOrder[i] : i \in 1..Len(FieldOrder)}

\* the keys of the Config type
ConfigKeys == CredFields \cup {"clientPlatform"}

\* the value of a key that a parsed document does not carry
Undefined == "undefined"

ValNames == <<"v1", "v2", "v3", "v4">>

\* the (truthy) strings a lookup can return
Vals == {ValNames[i] : i \in 1..NumVals}

\* a value written to config.yaml by an earlier run that no lookup returns
\* any more (an expired token, an old client version)
Stale == "v0"

\* a document without any key: what yaml.parse gives for an empty file
NoDoc == [k \in ConfigKeys |-> Undefined]

\* the messages with which the lookup of a field throws
FailMsgs(f) ==
    CASE f = "clientVersion" -> {"Failed to get client version"}
      [] f = "shard" -> {"LOCALAPPDATA is not defined", "Failed to get shard"}
      [] f = "ssid" -> {"LOCALAPPDATA is not defined", "Failed to get ssid"}
      [] f = "accessToken" -> {"Failed to get access token"}
      [] f = "puuid" -> {"Failed to get puuid"}
      [] OTHER -> {"Failed to get entitlements token"}

\* the outcomes of the lookup function of field f: a value, or a throw
Lookup(f) ==
    {[ok |-> TRUE, value |-> v, msg |-> ""] : v \in Vals}
        \cup {[ok |-> FALSE, value |-> Undefined, msg |-> m] : m \in FailMsgs(f)}

\* faulty variant: the lookup is made whatever the cache holds
CachedNever(parsedConfig, f) == FALSE

\* the test of `parsedConfig?.f ?? lookup()`: a cached value is kept
Cached(parsedConfig, f) == parsedConfig[f] # Undefined

\* the file config.yaml: exists or not, and the document it parses to
AbsentFile == [exists |-> FALSE, doc |-> NoDoc]
EmptyFile == [exists |-> TRUE, doc |-> NoDoc]

\* const parsedConfig = existsSync ? yaml.parse(readFileSync) : undefined
ParsedConfig(file) == IF file.exists THEN file.doc ELSE NoDoc

\* Resolution of the fields FieldOrder[i..6] in order, given the document,
\* the values resolved so far and the lookups invoked so far.  The result
\* is the set of outcomes of getConfig: ok with the full config, or the
\* throw of the first failing lookup.
RECURSIVE Resolve(_, _, _, _)
Resolve(parsedConfig, i, cfg, lk) ==
    IF i > Len(FieldOrder)
    THEN {[ok |-> TRUE,
           config |-> [cfg EXCEPT !["clientPlatform"] = CLIENT_PLATFORM],
           looked |-> lk, msg |-> ""]}
    ELSE LET f == FieldOrder[i] IN
         IF Cached(parsedConfig, f)
         THEN Resolve(parsedConfig, i + 1, [cfg EXCEPT ![f] = parsedConfig[f]], lk)
         ELSE UNION {IF r.ok
                     THEN Resolve(parsedConfig, i + 1,
                                  [cfg EXCEPT ![f] = r.value], lk \cup {f})
                     ELSE {[ok |-> FALSE, config |-> cfg,
                            looked |-> lk \cup {f}, msg |-> r.msg]}
                     : r \in Lookup(f)}

getConfig(file) == Resolve(ParsedConfig(file), 1, NoDoc, {})

\* faulty variant: the file is written as far as the fields are resolved
FileAfterGetConfigAlways(file, r) == [exists |-> TRUE, doc |-> r.config]

\* faulty variant: the resolved bundle is never written
FileAfterGetConfigNever(file, r) == file

\* config.yaml after a call of getConfig with outcome r
FileAfterGetConfig(file, r) ==
    IF r.ok THEN [exists |-> TRUE, doc |-> r.config] ELSE file

FullDoc(doc) == \A f \in CredFields : doc[f] # Undefined

\* --------------------------------------------------------- XP calculator
\* faulty variant of the loop: tier 1 is charged like the others
RECURSIVE TierLoopFromOne(_, _)
TierLoopFromOne(i, result) ==
    IF i > BATTLEPASS_TIER_COUNT THEN result
    ELSE TierLoopFromOne(i + 1, result + (i * 750 + 500))

\* the for loop of getTotalXpRequired, from counter i with accumulator result
RECURSIVE TierLoop(_, _)
TierLoop(i, result) ==
    IF i > BATTLEPASS_TIER_COUNT THEN result
    ELSE TierLoop(i + 1, IF i # 1 THEN result + (i * 750 + 500) ELSE result)

getTotalXpRequiredOffByOne(withEpilogue) ==
    TierLoopFromOne(1, 0)
        + (IF withEpilogue
           THEN BATTLEPASS_EPILOGUE_TIER_COUNT * xpRequriedPerEpilogueTier
           ELSE 0)

getTotalXpRequired(withEpilogue) ==
    TierLoop(1, 0)
        + (IF withEpilogue
           THEN BATTLEPASS_EPILOGUE_TIER_COUNT * xpRequriedPerEpilogueTier
           ELSE 0)

\* ------------------------------------------------------ report arithmetic
\* A percentage is the exact fraction n/d (d > 0).  The code computes it in
\* doubles; division and multiplication round monotonically and 1 and 100
\* are doubles, so the comparison with 100 is the one made here.
\* faulty variant: the percentage without Math.min, as in earlier revisions
Unclamped(progress, total) == [n |-> progress * 100, d |-> total]

\* Math.min(100, (progress / total) * 100)
ProgressPercentage(progress, total) ==
    IF progress * 100 >= 100 * total
    THEN [n |-> 100, d |-> 1]
    ELSE [n |-> progress * 100, d |-> total]

\* Math.max(0, total - progress)
XpRemaining(progress, total) ==
    IF total - progress > 0 THEN total - progress ELSE 0

\* Number.prototype.toFixed(2), as the number of hundredths printed:
\* the nearest hundredth, the larger one on a tie
ToFixed2(q) ==
    LET whole == q.n \div q.d
        rem == q.n % q.d
        frac == (rem * 100) \div q.d
        rem2 == (rem * 100) % q.d
    IN whole * 100 + frac + (IF 2 * rem2 >= q.d THEN 1 ELSE 0)

\* the values of ContractProgression.TotalProgressionEarned explored
EarnedValues == {0, 5000, 980000, 980001, 1162501}

NoPercentage == [n |-> 0, d |-> 1]

\* ------------------------------------------------------------------ state
VARIABLES
    pc,               \* the position of main
    run,              \* the number of the current run of the program
    cache,            \* the file config.yaml
    log,              \* the file error.log, a sequence of lines
    console,          \* the lines written with console.log in this run
    exitCode,         \* the status passed to process.exit, -1 while running
    config,           \* the local `config` of the function being executed
    looked,           \* the lookups invoked by the latest call of getConfig
    battlepassData,   \* the local `battlepassData` of main
    err,              \* the message of the error caught by main
    totalXpRequired,
    totalXpRequiredWithEpilogue,
    progressPercentage,
    progressPercentageWithEpilogue,
    xpRemaining,
    xpRemainingWithEpilogue,
    fetches,          \* the results of the contract requests of this run
    clears,           \* how often this run truncated config.yaml
    logAtStart        \* error.log as this run found it

locals ==
    <<totalXpRequired, totalXpRequiredWithEpilogue, progressPercentage,
      progressPercentageWithEpilogue, xpRemaining, xpRemainingWithEpilogue>>

vars ==
    <<pc, run, cache, log, console, exitCode, config, looked, battlepassData,
      err, locals, fetches, clears, logAtStart>>

\* `undefined` as the value of battlepassData
NoContract == [found |-> FALSE, earned |-> 0]

\* the documents the program itself writes: all six fields and the platform
WrittenDocs ==
    {[k \in ConfigKeys |-> IF k = "clientPlatform" THEN CLIENT_PLATFORM ELSE d[k]]
        : d \in [CredFields -> Vals \cup {Stale}]}

\* any mapping with some of the keys of Config (Partial<Config>)
PartialDocs ==
    {[k \in ConfigKeys |-> IF k = "clientPlatform" THEN Undefined ELSE d[k]]
        : d \in [CredFields -> Vals \cup {Stale, Undefined}]}

\* what an earlier run can have left in error.log
OldLogs == {<< >>, <<"Retrying...", "Failed to get battlepass data">>}

InitRest ==
    /\ pc = "start"
    /\ run = 1
    /\ log \in OldLogs
    /\ logAtStart = log
    /\ console = << >>
    /\ exitCode = -1
    /\ config = NoDoc
    /\ looked = {}
    /\ battlepassData = NoContract
    /\ err = ""
    /\ totalXpRequired = 0
    /\ totalXpRequiredWithEpilogue = 0
    /\ progressPercentage = NoPercentage
    /\ progressPercentageWithEpilogue = NoPercentage
    /\ xpRemaining = 0
    /\ xpRemainingWithEpilogue = 0
    /\ fetches = << >>
    /\ clears = 0

\* config.yaml is absent, empty or a bundle written by an earlier run
Init ==
    /\ cache \in {AbsentFile, EmptyFile} \cup {[exists |-> TRUE, doc |-> d] : d \in WrittenDocs}
    /\ InitRest

\* config.yaml is any Partial<Config>, as getConfig's cast allows
InitPartial ==
    /\ cache \in {AbsentFile} \cup {[exists |-> TRUE, doc |-> d] : d \in PartialDocs}
    /\ InitRest

\* ---------------------------------------------------------------- actions
\* faulty variant: error.log is opened without being emptied
LogKept(old) == old

\* fs.writeFileSync('error.log', '') at the start of main
LogTruncated(old) == << >>

Start ==
    /\ pc = "start"
    /\ log' = LogTruncated(log)
    /\ pc' = "bp1_config"
    /\ UNCHANGED <<run, cache, console, exitCode, config, looked, battlepassData,
                   err, locals, fetches, clears, logAtStart>>

\* `const config = await getConfig()` at position at; a throw goes to the
\* catch of main
CallGetConfig(at, next) ==
    /\ pc = at
    /\ \E r \in getConfig(cache) :
          /\ cache' = FileAfterGetConfig(cache, r)
          /\ looked' = r.looked
          /\ IF r.ok
             THEN /\ config' = r.config
                  /\ pc' = next
                  /\ err' = err
             ELSE /\ config' = NoDoc
                  /\ pc' = "catch"
                  /\ err' = r.msg
    /\ UNCHANGED <<run, log, console, exitCode, battlepassData, locals,
                   fetches, clears, logAtStart>>

getBattlepassData_getConfig ==
    \/ CallGetConfig("bp1_config", "bp1_fetch")
    \/ CallGetConfig("bp2_config", "bp2_fetch")

\* what the contract request can give: the list has the battlepass
\* contract, the list lacks it, or fetch / response.json() throws
ContractResponses ==
    {[kind |-> "found", earned |-> e] : e \in EarnedValues}
        \cup {[kind |-> "absent", earned |-> 0], [kind |-> "throw", earned |-> 0]}

\* faulty variants: the retry branch is never taken, or always
RetryNever(data) == FALSE

RetryAlways(data) == TRUE

\* main, line 283: `if (!battlepassData)` after the first call
RetryNeeded(data) == ~data.found

\* the request of getBattlepassData and its result; a returned value is
\* assigned to battlepassData of main, a throw goes to the catch of main
getBattlepassData_fetch(at, retry) ==
    /\ pc = at
    /\ \E resp \in ContractResponses :
          /\ fetches' = Append(fetches, resp.kind)
          /\ CASE resp.kind = "throw" ->
                    /\ pc' = "catch"
                    /\ err' = "fetch failed"
                    /\ battlepassData' = battlepassData
               [] resp.kind = "found" ->
                    /\ battlepassData' = [found |-> TRUE, earned |-> resp.earned]
                    /\ err' = err
                    /\ pc' = IF retry /\ RetryNeeded(battlepassData')
                             THEN "retry_log" ELSE "check"
               [] OTHER ->
                    IF retry
                    THEN /\ battlepassData' = NoContract
                         /\ err' = err
                         /\ pc' = IF RetryNeeded(battlepassData')
                                  THEN "retry_log" ELSE "check"
                    ELSE /\ battlepassData' = battlepassData
                         /\ err' = "Failed to get battlepass data"
                         /\ pc' = "catch"
    /\ config' = NoDoc
    /\ UNCHANGED <<run, cache, log, console, exitCode, looked, locals, clears,
                   logAtStart>>

getBattlepassData_first == getBattlepassData_fetch("bp1_fetch", TRUE)

getBattlepassData_second == getBattlepassData_fetch("bp2_fetch", FALSE)

\* fs.appendFileSync('error.log', 'Retrying...\n')
AppendRetrying ==
    /\ pc = "retry_log"
    /\ log' = Append(log, "Retrying...")
    /\ pc' = "retry_clear"
    /\ UNCHANGED <<run, cache, console, exitCode, config, looked, battlepassData,
                   err, locals, fetches, clears, logAtStart>>

\* fs.writeFileSync('config.yaml', '')
ClearCache ==
    /\ pc = "retry_clear"
    /\ cache' = EmptyFile
    /\ clears' = clears + 1
    /\ pc' = "bp2_config"
    /\ UNCHANGED <<run, log, console, exitCode, config, looked, battlepassData,
                   err, locals, fetches, logAtStart>>

\* main, line 288: if (!battlepassData) throw new Error('Failed to get progress')
CheckProgress ==
    /\ pc = "check"
    /\ IF battlepassData.found
       THEN pc' = "compute" /\ err' = err
       ELSE pc' = "catch" /\ err' = "Failed to get progress"
    /\ UNCHANGED <<run, cache, log, console, exitCode, config, looked,
                   battlepassData, locals, fetches, clears, logAtStart>>

\* main, lines 290-311
Compute ==
    /\ pc = "compute"
    /\ LET battlepassProgress == battlepassData.earned IN
          /\ totalXpRequired' = getTotalXpRequired(FALSE)
          /\ totalXpRequiredWithEpilogue' = getTotalXpRequired(TRUE)
          /\ progressPercentage' =
                ProgressPercentage(battlepassProgress, totalXpRequired')
          /\ progressPercentageWithEpilogue' =
                ProgressPercentage(battlepassProgress, totalXpRequiredWithEpilogue')
          /\ xpRemaining' = XpRemaining(battlepassProgress, totalXpRequired')
          /\ xpRemainingWithEpilogue' =
                XpRemaining(battlepassProgress, totalXpRequiredWithEpilogue')
    /\ pc' = "print"
    /\ UNCHANGED <<run, cache, log, console, exitCode, config, looked,
                   battlepassData, err, fetches, clears, logAtStart>>

\* the lines of the progress part of the report, lines 313-332
ProgressLines ==
    <<"VALORANT Battlepass Progress:", "------------------------------",
      "Without epilogue:", "Progress", "XP remaining",
      "With epilogue:", "Progress", "XP remaining">>

TimeLine == "Time remaining"

ErrorNotice == "An error occurred. Check error.log for more information."

PrintProgress ==
    /\ pc = "print"
    /\ console' = console \o ProgressLines
    /\ pc' = "act_config"
    /\ UNCHANGED <<run, cache, log, exitCode, config, looked, battlepassData,
                   err, locals, fetches, clears, logAtStart>>

getActiveActEndDate_getConfig == CallGetConfig("act_config", "act_fetch")

\* what the content request can give: an active act, no active act (the
\* read of activeAct.EndTime throws), or fetch / response.json() throws
SeasonResponses == {"act", "none", "throw"}

getActiveActEndDate_fetch ==
    /\ pc = "act_fetch"
    /\ \E resp \in SeasonResponses :
          CASE resp = "act" -> pc' = "print_time" /\ err' = err
            [] resp = "none" ->
                 /\ pc' = "catch"
                 /\ err' = "Cannot read properties of undefined (reading 'EndTime')"
            [] OTHER -> pc' = "catch" /\ err' = "fetch failed"
    /\ config' = NoDoc
    /\ UNCHANGED <<run, cache, log, console, exitCode, looked, battlepassData,
                   locals, fetches, clears, logAtStart>>

\* faulty variant: main returns after the report and the process ends
AfterReportExit == "exited"

\* where main goes after the last line of the report: `while (true);`
AfterReport == "spin"

\* main, lines 335-346
PrintTime ==
    /\ pc = "print_time"
    /\ console' = Append(console, TimeLine)
    /\ pc' = AfterReport
    /\ UNCHANGED <<run, cache, log, exitCode, config, looked, battlepassData,
                   err, locals, fetches, clears, logAtStart>>

\* handleError, called from the catch of main
handleError ==
    /\ pc = "catch"
    /\ log' = Append(log, err)
    /\ console' = Append(console, ErrorNotice)
    /\ exitCode' = 1
    /\ pc' = "exited"
    /\ UNCHANGED <<run, cache, config, looked, battlepassData, err, locals,
                   fetches, clears, logAtStart>>

\* `while (true);` after the report: the process stays alive and does nothing
Spin ==
    /\ pc = "spin"
    /\ UNCHANGED vars

\* the program is started again after it has exited; the two files are
\* what the run before left
NewRun ==
    /\ pc = "exited"
    /\ run < MaxRuns
    /\ run' = run + 1
    /\ pc' = "start"
    /\ logAtStart' = log
    /\ console' = << >>
    /\ exitCode' = -1
    /\ config' = NoDoc
    /\ looked' = {}
    /\ battlepassData' = NoContract
    /\ err' = ""
    /\ totalXpRequired' = 0
    /\ totalXpRequiredWithEpilogue' = 0
    /\ progressPercentage' = NoPercentage
    /\ progressPercentageWithEpilogue' = NoPercentage
    /\ xpRemaining' = 0
    /\ xpRemainingWithEpilogue' = 0
    /\ fetches' = << >>
    /\ clears' = 0
    /\ UNCHANGED <<cache, log>>

MainStep ==
    \/ Start
    \/ getBattlepassData_getConfig
    \/ getBattlepassData_first
    \/ AppendRetrying
    \/ ClearCache
    \/ getBattlepassData_second
    \/ CheckProgress
    \/ Compute
    \/ PrintProgress
    \/ getActiveActEndDate_getConfig
    \/ getActiveActEndDate_fetch
    \/ PrintTime
    \/ handleError
    \/ Spin

Next == MainStep \/ NewRun

Spec == Init /\ [][Next]_vars

SpecPartial == InitPartial /\ [][Next]_vars

FairSpec == Init /\ [][Next]_vars /\ WF_vars(MainStep)

\* ------------------------------------------------------------ vocabulary
GetConfigPcs == {"bp1_config", "bp2_config", "act_config"}

RunEnded == pc \in {"exited", "spin"}

\* the lines of the report among the lines of the console
ReportLines == SelectSeq(console, LAMBDA l : l # ErrorNotice)

FullReport == ProgressLines \o <<TimeLine>>

FirstFetchAbsent == Len(fetches) >= 1 /\ fetches[1] = "absent"

\* the values of main's locals have been computed (lines 290-311 are over)
Computed ==
    \/ pc \in {"print", "act_config", "act_fetch", "print_time", "spin"}
    \/ Len(ReportLines) > 0

LookupFailures == UNION {FailMsgs(f) : f \in CredFields}

IsPrefix(s, t) == Len(s) <= Len(t) /\ SubSeq(t, 1, Len(s)) = s

\* ------------------------------------------------------------------ claims

\* C1 as stated: a run whose first contract fetch finds no battlepass
\* record clears the cache and fetches the contracts exactly once more; if
\* the second fetch finds nothing either the run exits non-zero, no report.
C1_RetryAlwaysRefetches ==
    (RunEnded /\ FirstFetchAbsent) =>
        /\ clears = 1
        /\ Len(fetches) = 2
        /\ fetches[2] = "absent" => (exitCode = 1 /\ ReportLines = << >>)

\* C1 amended: after a first fetch without the battlepass record the cache
\* is cleared once and every credential is looked up again; the contracts
\* are fetched a second time exactly when that resolution succeeds, and
\* otherwise the run ends in the error sink after one fetch; a run never
\* fetches the contracts more than twice; a second fetch without the record
\* ends the run with exit status 1 and without a report line.
C1_RetryOnce ==
    /\ Len(fetches) <= 2
    /\ (FirstFetchAbsent /\ pc \notin {"retry_log", "retry_clear"}) => clears = 1
    /\ Len(fetches) = 2 => (fetches[1] = "absent" /\ clears = 1)
    /\ pc = "bp2_fetch" => (looked = CredFields /\ Len(fetches) = 1)
    /\ (RunEnded /\ FirstFetchAbsent /\ Len(fetches) = 1) =>
          (exitCode = 1 /\ err \in LookupFailures /\ looked # {}
              /\ ReportLines = << >>)
    /\ (Len(fetches) = 2 /\ fetches[2] = "absent") =>
          /\ pc \in {"catch", "exited"}
          /\ err = "Failed to get battlepass data"
          /\ ReportLines = << >>
          /\ pc = "exited" => exitCode = 1

C1_Witness ==
    /\ pc = "exited"
    /\ fetches = <<"absent", "absent">>
    /\ clears = 1
    /\ exitCode = 1

\* C2: the report is all or nothing: a run that is over has printed the
\* whole report (progress lines and the time line) or no report line.
C2_ReportAllOrNothing ==
    RunEnded => ReportLines \in {<< >>, FullReport}

C4_ResolverPrecedence ==
    [][(pc \in GetConfigPcs /\ pc' # pc) =>
          \A f \in CredFields :
              (cache.exists /\ cache.doc[f] # Undefined) =>
                  /\ f \notin looked'
                  /\ pc' # "catch" => config'[f] = cache.doc[f]]_vars

C4_Witness ==
    /\ pc = "bp1_fetch"
    /\ looked \notin {{}, CredFields}
    /\ \E f \in CredFields \ looked : config[f] = Stale

\* C5: getConfig writes config.yaml only when all six fields are resolved:
\* a call that throws leaves the file as it was, a call that returns has
\* written the whole bundle, and the file is never a partial bundle.
C5_CacheWrittenOnlyWhenComplete ==
    /\ [](cache.exists =>
             (cache.doc = NoDoc
                 \/ (FullDoc(cache.doc) /\ cache.doc["clientPlatform"] = CLIENT_PLATFORM)))
    /\ [][(pc \in GetConfigPcs /\ pc' = "catch") => cache' = cache]_vars
    /\ [][(pc \in GetConfigPcs /\ pc' \notin {pc, "catch"}) =>
             (FullDoc(config') /\ cache' = [exists |-> TRUE, doc |-> config'])]_vars

C5_Witness ==
    /\ pc = "catch"
    /\ clears = 1
    /\ Len(fetches) = 1
    /\ Cardinality(looked) >= 2
    /\ cache = EmptyFile

\* C6: a run truncates config.yaml at most once, and only after its first
\* contract fetch returned no battlepass record.
C6_ClearOnlyAfterFirstMiss ==
    /\ [](clears <= 1 /\ (clears = 1 => FirstFetchAbsent))
    /\ [][(cache' = EmptyFile /\ cache # EmptyFile) =>
             (pc = "retry_clear" /\ fetches = <<"absent">> /\ clears = 0)]_vars

C6_Witness ==
    /\ pc = "bp2_config"
    /\ clears = 1
    /\ cache = EmptyFile
    /\ fetches = <<"absent">>

\* C7: getTotalXpRequired gives 980000 without the epilogue, the sum of
\* i*750+500 over the tiers 2..50, and 1162500 with it.
C7_TotalXpRequired ==
    Computed =>
        /\ totalXpRequired = 980000
        /\ totalXpRequired =
              750 * ((BATTLEPASS_TIER_COUNT * (BATTLEPASS_TIER_COUNT + 1)) \div 2 - 1)
                  + 500 * (BATTLEPASS_TIER_COUNT - 1)
        /\ totalXpRequiredWithEpilogue = 1162500
        /\ totalXpRequiredWithEpilogue = totalXpRequired + 5 * 36500

C7_Witness ==
    /\ pc = "print"
    /\ totalXpRequired = 980000
    /\ totalXpRequiredWithEpilogue = 1162500

\* C8: the percentages printed lie between 0 and 100 and the XP remaining
\* is not negative; when the XP earned exceed a total, its percentage is
\* exactly 100 and its XP remaining exactly 0.
C8_Clamping ==
    Computed =>
        /\ ToFixed2(progressPercentage) \in 0..10000
        /\ ToFixed2(progressPercentageWithEpilogue) \in 0..10000
        /\ xpRemaining >= 0
        /\ xpRemainingWithEpilogue >= 0
        /\ battlepassData.earned > totalXpRequired =>
              /\ progressPercentage = [n |-> 100, d |-> 1]
              /\ ToFixed2(progressPercentage) = 10000
              /\ xpRemaining = 0
        /\ battlepassData.earned > totalXpRequiredWithEpilogue =>
              /\ progressPercentageWithEpilogue = [n |-> 100, d |-> 1]
              /\ ToFixed2(progressPercentageWithEpilogue) = 10000
              /\ xpRemainingWithEpilogue = 0

C8_Witness ==
    /\ pc = "print"
    /\ battlepassData.earned > totalXpRequired
    /\ battlepassData.earned < totalXpRequiredWithEpilogue
    /\ ToFixed2(progressPercentage) = 10000
    /\ ToFixed2(progressPercentageWithEpilogue) < 10000

\* C9: error.log is emptied when a run starts and only grows afterwards;
\* "Retrying..." is in it exactly when the retry path was taken, as its
\* first line; a failed run adds exactly one message after that, and a run
\* that succeeds without a retry leaves the file empty.
C9_ErrorLog ==
    /\ [][(pc = "start" /\ pc' # "start") => log' = << >>]_vars
    /\ [][pc # "start" /\ pc # "exited" => IsPrefix(log, log')]_vars
    /\ [](pc # "start" =>
             LET retried == FirstFetchAbsent /\ pc # "retry_log"
                 head == IF retried THEN <<"Retrying...">> ELSE << >>
             IN IF pc = "exited" THEN log = head \o <<err>> ELSE log = head)

C9_Witness ==
    /\ pc = "exited"
    /\ logAtStart # << >>
    /\ log = <<"Retrying...", "Failed to get access token">>

\* C10: while a contract request or a season request is out, config.yaml
\* holds the full bundle of exactly the values the request uses; the values
\* of the second contract request all come from lookups made after the
\* clear.
C10_RequestUsesCachedBundle ==
    /\ pc \in {"bp1_fetch", "bp2_fetch", "act_fetch"} =>
          /\ cache.exists
          /\ FullDoc(cache.doc)
          /\ \A k \in ConfigKeys : cache.doc[k] = config[k]
    /\ pc = "bp2_fetch" =>
          /\ looked = CredFields
          /\ \A f \in CredFields : config[f] \in Vals

C10_Witness ==
    /\ pc = "bp2_fetch"
    /\ FullDoc(config)
    /\ cache.doc = config
    /\ clears = 1

TypeOK ==
    /\ pc \in {"start", "bp1_config", "bp1_fetch", "retry_log", "retry_clear",
               "bp2_config", "bp2_fetch", "check", "compute", "print",
               "act_config", "act_fetch", "print_time", "spin", "catch", "exited"}
    /\ run \in 1..MaxRuns
    /\ exitCode \in {-1, 0, 1}
    /\ clears \in Nat

====
